---- MODULE Spec2Model ----
(***************************************************************************)
(* A model of the e-mail finder of app.py (the Flask service) and of       *)
(* company_email_finder.py (the command-line variant): domain resolution,  *)
(* page crawling, address validation, MX / SMTP verification, guessing     *)
(* and the orchestrator find_company_emails.                               *)
(*                                                                         *)
(* Text is modelled as a sequence of one-character strings, so that        *)
(* lower-casing, stripping, splitting and substring tests are computed     *)
(* the way the Python code computes them.                                  *)
(***************************************************************************)
EXTENDS Naturals, Integers, Sequences, FiniteSets, TLC

\* ------------------------------------------------------------------------
\* Text helpers (Python str methods used by the source)
\* ------------------------------------------------------------------------

NoValue == << "None" >>

ValueError == << "ValueError" >>

UpperLetters == <<"A","B","C","D","E","F","G","H","I","J","K","L","M","N","O","P","Q","R","S","T","U","V","W","X","Y","Z">>

LowerLetters == <<"a","b","c","d","e","f","g","h","i","j","k","l","m","n","o","p","q","r","s","t","u","v","w","x","y","z">>

DigitChars == <<"0","1","2","3","4","5","6","7","8","9">>

Range(s) == { s[i] : i \in 1..Len(s) }

\* str.lower() on one character
LowerChar(c) ==
    IF \E i \in 1..26 : UpperLetters[i] = c
    THEN LowerLetters[CHOOSE i \in 1..26 : UpperLetters[i] = c]
    ELSE c

\* str.lower()
lower(s) == [ i \in 1..Len(s) |-> LowerChar(s[i]) ]

\* str.strip(): leading and trailing white space removed
strip(s) ==
    LET keep == { i \in 1..Len(s) : s[i] # " " }
    IN  IF keep = {} THEN << >>
        ELSE LET lo == CHOOSE i \in keep : \A j \in keep : i <= j
                 hi == CHOOSE i \in keep : \A j \in keep : i >= j
             IN  SubSeq(s, lo, hi)

\* sub in s
Contains(s, sub) ==
    \E i \in 0..(Len(s) - Len(sub)) : SubSeq(s, i + 1, i + Len(sub)) = sub

\* s.startswith(p)
startswith(s, p) == Len(p) <= Len(s) /\ SubSeq(s, 1, Len(p)) = p

\* s.find(sub): the first index (1-based) where sub occurs, 0 when it does not
find(s, sub) ==
    IF Contains(s, sub)
    THEN 1 + CHOOSE i \in 0..(Len(s) - Len(sub)) :
                 /\ SubSeq(s, i + 1, i + Len(sub)) = sub
                 /\ \A j \in 0..(i - 1) : SubSeq(s, j + 1, j + Len(sub)) # sub
    ELSE 0

RECURSIVE replace(_, _, _)
\* s.replace(old, new): every non-overlapping occurrence, left to right
replace(s, old, new) ==
    LET i == find(s, old)
    IN  IF i = 0 \/ old = << >> THEN s
        ELSE SubSeq(s, 1, i - 1) \o new
             \o replace(SubSeq(s, i + Len(old), Len(s)), old, new)

RECURSIVE split(_, _)
\* s.split(sep) for a one-character separator: the list of parts
split(s, sep) ==
    LET i == find(s, <<sep>>)
    IN  IF i = 0 THEN << s >>
        ELSE << SubSeq(s, 1, i - 1) >> \o split(SubSeq(s, i + 1, Len(s)), sep)

\* s.split(sep, 1): at most one split, at the first separator
split1(s, sep) ==
    LET i == find(s, <<sep>>)
    IN  IF i = 0 THEN << s >>
        ELSE << SubSeq(s, 1, i - 1), SubSeq(s, i + 1, Len(s)) >>

Last(seq) == seq[Len(seq)]

\* re.sub(r'[^a-z0-9]', '', s): only the characters a-z and 0-9 are kept
KeepAlnum(s) ==
    SelectSeq(s, LAMBDA c : c \in Range(LowerLetters) \cup Range(DigitChars))

\* every ordering of a finite set as a sequence (list(set) has no defined order)
Orderings(set) ==
    { q \in [1..Cardinality(set) -> set] : \A e \in set : \E i \in DOMAIN q : q[i] = e }

\* ------------------------------------------------------------------------
\* Constants of the source
\* ------------------------------------------------------------------------

DISPOSABLE_DOMAINS ==
    { <<"t","e","m","p","m","a","i","l",".","c","o","m">>, <<"g","u","e","r","r","i","l","l","a","m","a","i","l",".","c","o","m">>, <<"m","a","i","l","i","n","a","t","o","r",".","c","o","m">>, <<"1","0","m","i","n","u","t","e","m","a","i","l",".","c","o","m">> }

GENERIC_DOMAINS ==
    { <<"g","o","d","a","d","d","y",".","c","o","m">>, <<"w","i","x",".","c","o","m">>, <<"w","o","r","d","p","r","e","s","s",".","c","o","m">>, <<"s","q","u","a","r","e","s","p","a","c","e",".","c","o","m">>, <<"g","m","a","i","l",".","c","o","m">>,
      <<"y","a","h","o","o",".","c","o","m">>, <<"h","o","t","m","a","i","l",".","c","o","m">>, <<"o","u","t","l","o","o","k",".","c","o","m">>, <<"a","o","l",".","c","o","m">>, <<"l","a","t","o","f","o","n","t","s",".","c","o","m">>,
      <<"g","o","o","g","l","e","f","o","n","t","s",".","c","o","m">>, <<"t","y","p","e","k","i","t",".","c","o","m">>, <<"f","o","n","t","a","w","e","s","o","m","e",".","c","o","m">>, <<"c","l","o","u","d","f","l","a","r","e",".","c","o","m">>,
      <<"a","m","a","z","o","n","a","w","s",".","c","o","m">>, <<"a","z","u","r","e","w","e","b","s","i","t","e","s",".","n","e","t">>, <<"e","x","a","m","p","l","e",".","c","o","m">>, <<"t","e","s","t",".","c","o","m">>, <<"l","o","c","a","l","h","o","s","t">> }

INVALID_PREFIXES ==
    { <<"n","o","r","e","p","l","y">>, <<"n","o","-","r","e","p","l","y">>, <<"d","o","n","o","t","r","e","p","l","y">>, <<"d","o","-","n","o","t","-","r","e","p","l","y">>, <<"f","i","l","l","e","r">>, <<"t","e","s","t">>,
      <<"a","d","m","i","n">>, <<"p","o","s","t","m","a","s","t","e","r">>, <<"w","e","b","m","a","s","t","e","r">>, <<"s","u","p","p","o","r","t","@","e","x","a","m","p","l","e">>, <<"i","n","f","o","@","e","x","a","m","p","l","e">>,
      <<"s","a","l","e","s","@","e","x","a","m","p","l","e">> }

FileExtensions ==
    { <<".","j","p","g">>, <<".","j","p","e","g">>, <<".","p","n","g">>, <<".","g","i","f">>, <<".","s","v","g">>, <<".","w","e","b","p">>, <<".","b","m","p">>, <<".","i","c","o">>, <<".","p","d","f">>,
      <<".","d","o","c">>, <<".","d","o","c","x">>, <<".","z","i","p">>, <<".","c","s","s">>, <<".","j","s">>, <<".","j","s","o","n">>, <<".","x","m","l">> }

\* the placeholder markers of app.py
SuspiciousApp ==
    { <<"u","s","e","r","@","d","o","m","a","i","n",".","c","o","m">>, <<"e","x","a","m","p","l","e",".">>, <<"t","e","s","t","@">>, <<"d","u","m","m","y">>, <<"f","a","k","e">>, <<"s","a","m","p","l","e">>,
      <<"n","a","m","e","@","d","o","m","a","i","n">> }

\* the placeholder markers of company_email_finder.py
SuspiciousCli == { <<"e","x","a","m","p","l","e",".">>, <<"t","e","s","t","@">>, <<"d","u","m","m","y">>, <<"f","a","k","e">>, <<"s","a","m","p","l","e">> }

GENERIC_GUESSES == << <<"i","n","f","o">>, <<"c","o","n","t","a","c","t">>, <<"h","e","l","l","o">>, <<"o","f","f","i","c","e">>, <<"s","a","l","e","s">> >>

\* the paths find_emails crawls, in order (app.py, then company_email_finder.py)
PagesApp ==
    << <<"/">>, <<"/","c","o","n","t","a","c","t">>, <<"/","a","b","o","u","t">>, <<"/","t","e","a","m">>, <<"/","s","t","a","f","f">>, <<"/","c","o","n","t","a","t","t","i">>, <<"/","c","h","i","-","s","i","a","m","o">>,
       <<"/","c","o","n","t","a","c","t","s">> >>

PagesCli ==
    << <<"/">>, <<"/","c","o","n","t","a","c","t">>, <<"/","a","b","o","u","t">>, <<"/","t","e","a","m">>, <<"/","s","t","a","f","f">>, <<"/","c","o","n","t","a","t","t","i">>, <<"/","c","h","i","-","s","i","a","m","o">> >>

\* the top-level domains find_company_domain tries, in order
FallbackTlds == << <<".","c","o","m">>, <<".","i","t">>, <<".","c","o",".","u","k">>, <<".","f","r">>, <<".","e","s">>, <<".","c","h">> >>

\* ------------------------------------------------------------------------
\* Validation
\* ------------------------------------------------------------------------

\* the body shared by both files' _is_valid_email, the marker list apart
IsValidWith(raw, suspicious) ==
    LET email == strip(lower(raw))
        parts == split(email, "@")
    IN  /\ Contains(email, <<"@">>)
        /\ Contains(Last(parts), <<".">>)
        /\ \A ext \in FileExtensions : ~Contains(email, ext)
        /\ Len(parts) = 2
        /\ LET local  == parts[1]
               domain == parts[2]
           IN  /\ domain \notin DISPOSABLE_DOMAINS
               /\ domain \notin GENERIC_DOMAINS
               /\ \A prefix \in INVALID_PREFIXES : ~startswith(local, prefix)
               /\ Len(local) >= 2
               /\ Len(domain) >= 4
               /\ Contains(domain, <<".">>)
               /\ \A m \in suspicious : ~Contains(email, m)

\* EmailFinder._is_valid_email of app.py
IsValidEmailApp(email) == IsValidWith(email, SuspiciousApp)

\* EmailFinder._is_valid_email of company_email_finder.py
IsValidEmailCli(email) == IsValidWith(email, SuspiciousCli)

_is_valid_email(variant, email) ==
    IF variant = "app" THEN IsValidEmailApp(email) ELSE IsValidEmailCli(email)

\* ------------------------------------------------------------------------
\* Similarity (difflib.SequenceMatcher(None, a, b).ratio())
\* ------------------------------------------------------------------------

\* find_longest_match: the longest common block, the earliest in a among the
\* longest, the earliest in b among those; k = 0 when nothing matches
LongestMatch(a, b) ==
    LET blocks == { t \in (1..Len(a)) \X (1..Len(b)) \X (1..Len(a)) :
                      /\ t[1] + t[3] - 1 <= Len(a)
                      /\ t[2] + t[3] - 1 <= Len(b)
                      /\ SubSeq(a, t[1], t[1] + t[3] - 1) = SubSeq(b, t[2], t[2] + t[3] - 1) }
    IN  IF blocks = {} THEN << 1, 1, 0 >>
        ELSE CHOOSE t \in blocks : \A u \in blocks :
                 \/ t[3] > u[3]
                 \/ t[3] = u[3] /\ t[1] < u[1]
                 \/ t[3] = u[3] /\ t[1] = u[1] /\ t[2] <= u[2]

RECURSIVE MatchCount(_, _)
\* the number of matched characters: the longest block, then the same to its left
\* and to its right (get_matching_blocks)
MatchCount(a, b) ==
    LET m == LongestMatch(a, b)
    IN  IF m[3] = 0 THEN 0
        ELSE m[3]
             + MatchCount(SubSeq(a, 1, m[1] - 1), SubSeq(b, 1, m[2] - 1))
             + MatchCount(SubSeq(a, m[1] + m[3], Len(a)), SubSeq(b, m[2] + m[3], Len(b)))

\* ratio() as the fraction num / den (2.0 * matches / length; 1.0 for two empty texts)
Ratio(a, b) ==
    IF Len(a) + Len(b) = 0 THEN [num |-> 1, den |-> 1]
    ELSE [num |-> 2 * MatchCount(a, b), den |-> Len(a) + Len(b)]

\* r > p / q
RatioGT(r, p, q) == r.num * q > p * r.den

\* r1 > r2
RatioMore(r1, r2) == r1.num * r2.den > r2.num * r1.den

\* EmailFinder._similar
_similar(name, domain) ==
    LET cleaned_name   == KeepAlnum(lower(name))
        cleaned_domain == split(lower(domain), ".")[1]
    IN  Ratio(cleaned_name, cleaned_domain)

\* ------------------------------------------------------------------------
\* Domain discovery: pure parts
\* ------------------------------------------------------------------------

Min(a, b) == IF a <= b THEN a ELSE b

SchemeChars == Range(LowerLetters) \cup Range(UpperLetters) \cup Range(DigitChars) \cup {"+", "-", "."}

\* the first index at or after which one of the characters of stops occurs, or Len + 1
FirstOf(s, stops) ==
    IF \E i \in 1..Len(s) : s[i] \in stops
    THEN CHOOSE i \in 1..Len(s) : s[i] \in stops /\ \A j \in 1..(i - 1) : s[j] \notin stops
    ELSE Len(s) + 1

\* urlparse(href).netloc; ValueError where urlparse raises (an unbalanced bracket)
Netloc(href) ==
    LET colon  == find(href, <<":">>)
        scheme == SubSeq(href, 1, colon - 1)
        rest   == IF colon > 0 /\ colon > 1 /\ Range(scheme) \subseteq SchemeChars
                  THEN SubSeq(href, colon + 1, Len(href)) ELSE href
        loc    == IF startswith(rest, <<"/","/">>)
                  THEN LET after == SubSeq(rest, 3, Len(rest))
                       IN  SubSeq(after, 1, FirstOf(after, {"/", "?", "#"}) - 1)
                  ELSE << >>
    IN  IF Contains(loc, <<"[">>) # Contains(loc, <<"]">>) THEN ValueError ELSE loc

\* the query text of _search_duckduckgo (both files)
Query(company_name, country) ==
    strip(company_name \o <<" ">> \o country \o <<" ","o","f","f","i","c","i","a","l"," ","w","e","b","s","i","t","e">>)

\* the links of a result page that start with 'http', in page order
HttpLinks(links) == SelectSeq(links, LAMBDA href : startswith(href, <<"h","t","t","p">>))

\* the first index whose score no other index beats (max(candidates, key=...))
BestIndex(scores) ==
    CHOOSE i \in 1..Len(scores) :
        /\ \A j \in 1..Len(scores) : ~RatioMore(scores[j], scores[i])
        /\ \A j \in 1..(i - 1) : RatioMore(scores[i], scores[j])

\* EmailFinder._search_duckduckgo of app.py on a response: error (the request
\* raised) or the hrefs of the result links
SearchApp(company_name, resp) ==
    IF resp.error THEN NoValue
    ELSE LET hrefs == HttpLinks(resp.links)
             locs  == [ i \in 1..Len(hrefs) |-> Netloc(hrefs[i]) ]
         IN  IF \E i \in 1..Len(locs) : locs[i] = ValueError THEN NoValue
             ELSE IF Len(locs) = 0 THEN NoValue
             ELSE LET doms   == [ i \in 1..Len(locs) |-> replace(locs[i], <<"w","w","w",".">>, << >>) ]
                      scores == [ i \in 1..Len(doms) |-> _similar(company_name, doms[i]) ]
                      best   == BestIndex(scores)
                  IN  IF RatioGT(scores[best], 7, 20) THEN doms[best] ELSE NoValue

\* EmailFinder._search_duckduckgo of company_email_finder.py: the first link with
\* a dotted host
SearchCli(company_name, resp) ==
    IF resp.error THEN NoValue
    ELSE LET hrefs == HttpLinks(resp.links)
             locs  == [ i \in 1..Len(hrefs) |-> Netloc(hrefs[i]) ]
             doms  == [ i \in 1..Len(hrefs) |->
                          IF locs[i] = ValueError THEN << >>
                          ELSE replace(locs[i], <<"w","w","w",".">>, << >>) ]
             good(i) == Len(doms[i]) > 0 /\ Contains(doms[i], <<".">>)
             upto(i) == \A j \in 1..(i - 1) : locs[j] # ValueError /\ ~good(j)
         IN  IF \E i \in 1..Len(hrefs) : locs[i] # ValueError /\ good(i) /\ upto(i)
             THEN doms[CHOOSE i \in 1..Len(hrefs) : locs[i] # ValueError /\ good(i) /\ upto(i)]
             ELSE NoValue

\* the acceptance test of find_company_domain (app.py): domain and similarity > 0.4
Accepted(company_name, d) ==
    d # NoValue /\ RatioGT(_similar(company_name, d), 2, 5)

\* slug = re.sub(r'[^a-z0-9]', '', company_name.lower())
Slug(company_name) == KeepAlnum(lower(company_name))

\* candidate = f"{slug}{tld}" for the i-th top-level domain
Candidate(company_name, i) == Slug(company_name) \o FallbackTlds[i]

\* the outcome of a HEAD request that raised
RequestFailed == -1

\* a probe that takes any answer, whatever its status, for an existing domain
DomainExistsAnyStatus(outcome) == outcome # RequestFailed

\* EmailFinder._domain_exists on the outcome of the HEAD request: the status
\* code, or RequestFailed when the request raised
_domain_exists(outcome) == outcome # RequestFailed /\ outcome < 500

\* ------------------------------------------------------------------------
\* functools.lru_cache(maxsize=100) around find_company_domain
\* ------------------------------------------------------------------------

maxsize == 100

\* the cache is a list of entries, the least recently used first
CacheHas(c, key) == \E i \in 1..Len(c) : c[i].key = key

CacheGet(c, key) == c[CHOOSE i \in 1..Len(c) : c[i].key = key].value

\* a hit that leaves the order of the entries alone (first in, first out)
CacheTouchNot(c, key) == c

\* a hit moves the entry to the most recently used end
CacheTouch(c, key) ==
    SelectSeq(c, LAMBDA e : e.key # key) \o SelectSeq(c, LAMBDA e : e.key = key)

\* a miss stores the result; a full cache first drops its least recently used
\* entry; a key another caller stored meanwhile is left as it is
CacheInsert(c, key, value) ==
    IF CacheHas(c, key) THEN c
    ELSE (IF Len(c) >= maxsize THEN Tail(c) ELSE c) \o << [key |-> key, value |-> value] >>

\* ------------------------------------------------------------------------
\* Crawling: pure parts
\* ------------------------------------------------------------------------

\* base_url of find_emails
BaseUrl(domain) == IF startswith(domain, <<"h","t","t","p">>) THEN domain ELSE <<"h","t","t","p","s",":","/","/">> \o domain

\* urljoin(base_url, page) for an absolute path
urljoin(base, page) ==
    LET loc == Netloc(base)
    IN  IF loc = ValueError \/ loc = << >> THEN page
        ELSE SubSeq(base, 1, find(base, <<":","/","/">>) + 2) \o loc \o page

\* target_domain of find_emails, base of guess_possible_emails
StripScheme(domain) ==
    replace(replace(replace(domain, <<"h","t","t","p","s",":","/","/">>, << >>), <<"h","t","t","p",":","/","/">>, << >>), <<"w","w","w",".">>, << >>)

\* re.compile(r'^mailto:', re.I) in app.py, re.compile(r'^mailto:') in the other file
IsMailto(variant, href) ==
    IF variant = "app" THEN startswith(lower(SubSeq(href, 1, Min(7, Len(href)))), <<"m","a","i","l","t","o",":">>)
    ELSE startswith(href, <<"m","a","i","l","t","o",":">>)

\* mailto['href'].replace('mailto:', '').split('?')[0]
MailtoEmail(href) == split(replace(href, <<"m","a","i","l","t","o",":">>, << >>), "?")[1]

\* the address-like strings one page yields: the mailto links, then the matches
\* of EMAIL_RE in the text
PageCandidates(variant, page) ==
    { MailtoEmail(page.hrefs[i]) : i \in { j \in 1..Len(page.hrefs) : IsMailto(variant, page.hrefs[j]) } }
    \cup Range(page.text)

\* what one page adds to found_emails: nothing when the request raised or (app.py:
\* status >= 400, the other file: raise_for_status) the status is an error
PageEmails(variant, page) ==
    IF page.kind # "response" \/ page.status >= 400 THEN {}
    ELSE { lower(e) : e \in { c \in PageCandidates(variant, page) : _is_valid_email(variant, c) } }

\* an affinity test on the text after the '@' only
HasAffinityDomainPart(target_domain, e) == Contains(Last(split(e, "@")), target_domain)

\* target_domain in e
HasAffinity(target_domain, e) == Contains(e, target_domain)

\* domain_emails or list(found_emails), as a set
AffinityFilter(found, target_domain) ==
    LET domain_emails == { e \in found : HasAffinity(target_domain, e) }
    IN  IF domain_emails # {} THEN domain_emails ELSE found

\* ------------------------------------------------------------------------
\* Verification and guessing: pure parts
\* ------------------------------------------------------------------------

ENABLE_SMTP == TRUE

\* the session of _smtp_rcpt raised (connect, EHLO or RCPT failed): code -1
SessionFailed == -1

\* _smtp_rcpt's verdict on the reply code of RCPT: code in (250, 251)
RcptAccepted(code) == code \in {250, 251}

\* a check that takes every domain to have an exchanger
VerifyMxDomainAlways(mx_hosts) == TRUE

\* EmailFinder.verify_mx_domain on the answer of _mx_hosts: len(...) > 0
verify_mx_domain(mx_hosts) == Len(mx_hosts) > 0

\* mx_hosts[:2]
ProbedHosts(mx_hosts) == SubSeq(mx_hosts, 1, Min(2, Len(mx_hosts)))

\* a verdict that looks at the target first
HostVerdictTargetFirst(rand_ok, target_ok) ==
    IF target_ok THEN "exists"
    ELSE IF rand_ok /\ target_ok THEN "catch_all"
    ELSE "next"

\* what smtp_verify does after probing one host: report a catch-all, report the
\* address, or go on to the next host
HostVerdict(rand_ok, target_ok) ==
    IF rand_ok /\ target_ok THEN "catch_all"
    ELSE IF target_ok THEN "exists"
    ELSE "next"

\* local, domain = email.split('@', 1)
EmailDomain(email) == split1(email, "@")[2]

EmailLocal(email) == split1(email, "@")[1]

\* guessed: f"{p}@{base}" for every generic local part
Guessed(base) == { GENERIC_GUESSES[i] \o <<"@">> \o base : i \in 1..Len(GENERIC_GUESSES) }

\* filtered = [e for e in guessed if self._is_valid_email(e)]
Filtered(base) == { e \in Guessed(base) : IsValidEmailApp(e) }

\* a return that keeps the addresses confirmed before the catch-all showed
GuessResultPartial(is_catch_all, verified_list) == verified_list

\* the return of guess_possible_emails after the loop: [] for a catch-all domain,
\* verified otherwise
GuessResult(is_catch_all, verified_list) ==
    IF is_catch_all THEN << >> ELSE verified_list

\* a guard that always guesses
NeedsGuessAlways(emails) == TRUE

\* the guard of the guessing branch of find_company_emails: if not emails
NeedsGuess(emails) == emails = << >>

\* ------------------------------------------------------------------------
\* The environment: what the network may answer
\* ------------------------------------------------------------------------

Companies == { <<"A","c","m","e"," ","C","o","r","p">> }

Countries == { << >>, <<"I","t","a","l","y">> }

\* result pages of the search engine: unreachable, empty, a good match behind a
\* relative link, a match with capitals, a match scoring 0.375, no match
SearchResponses ==
    { [error |-> TRUE,  links |-> << >>],
      [error |-> FALSE, links |-> << >>],
      [error |-> FALSE, links |-> << <<"/","l","/","?","u","=","1">>, <<"h","t","t","p","s",":","/","/","w","w","w",".","a","c","m","e","c","o","r","p",".","c","o","m","/">> >>],
      [error |-> FALSE, links |-> << <<"h","t","t","p","s",":","/","/","A","c","m","e","C","o","r","p",".","i","o","/","a","b","o","u","t">>, <<"h","t","t","p","s",":","/","/","z","z","z",".","n","e","t","/">> >>],
      [error |-> FALSE, links |-> << <<"h","t","t","p","s",":","/","/","a","c","m","x","y","z","u","v",".","c","o","m","/">> >>],
      [error |-> FALSE, links |-> << <<"h","t","t","p","s",":","/","/","z","z","z",".","n","e","t","/">> >>] }

\* outcomes of the HEAD request of _domain_exists
HeadOutcomes == { RequestFailed, 200, 404, 503 }

\* outcomes of one page fetch
PageOutcomes ==
    { [kind |-> "RequestException", status |-> 0, hrefs |-> << >>, text |-> << >>],
      [kind |-> "Exception", status |-> 0, hrefs |-> << >>, text |-> << >>],
      [kind |-> "response", status |-> 404, hrefs |-> << >>, text |-> << <<"j","d","o","e","@","a","c","m","e","c","o","r","p",".","c","o","m">> >>],
      [kind |-> "response", status |-> 200, hrefs |-> << <<"/","a","b","o","u","t">> >>,
       text |-> << <<"i","n","f","o","@","g","m","a","i","l",".","c","o","m">>, <<"l","o","g","o","@","2","x",".","p","n","g">>, <<"n","o","r","e","p","l","y","@","a","c","m","e","c","o","r","p",".","c","o","m">> >>],
      [kind |-> "response", status |-> 200,
       hrefs |-> << <<"m","a","i","l","t","o",":","S","a","l","e","s","@","A","c","m","e","C","o","r","p",".","c","o","m","?","s","u","b","j","e","c","t","=","H","i">>, <<"h","t","t","p","s",":","/","/","x",".","o","r","g","/">> >>,
       text |-> << <<"s","a","l","e","s","@","a","c","m","e","c","o","r","p",".","c","o","m">> >>],
      [kind |-> "response", status |-> 200, hrefs |-> << <<"M","A","I","L","T","O",":","B","o","b","@","o","t","h","e","r","s","i","t","e",".","o","r","g">> >>,
       text |-> << <<"B","o","b","@","o","t","h","e","r","s","i","t","e",".","o","r","g">> >>],
      [kind |-> "response", status |-> 200, hrefs |-> << >>,
       text |-> << <<"a","c","m","e","c","o","r","p",".","c","o","m","@","e","v","i","l",".","o","r","g">> >>] }

\* PageEmails of every outcome, computed once
PageYield == [ v \in {"app", "cli"}, out \in PageOutcomes |-> PageEmails(v, out) ]

MxHostNames == << <<"m","x","1">>, <<"m","x","2">>, <<"m","x","3">> >>

\* the mail setups a run of the whole pipeline may meet: no MX record at all; three
\* exchangers rejecting every recipient (and no MX for othersite.org); one exchanger
\* knowing info@ and sales@; two exchangers accepting every recipient
StableMailEnvs ==
    { [met |-> TRUE, free |-> FALSE, hosts |-> << >>, nomx |-> {}, accept |-> {},
       catch_all |-> FALSE],
      [met |-> TRUE, free |-> FALSE, hosts |-> MxHostNames, nomx |-> { <<"o","t","h","e","r","s","i","t","e",".","o","r","g">> }, accept |-> {},
       catch_all |-> FALSE],
      [met |-> TRUE, free |-> FALSE, hosts |-> SubSeq(MxHostNames, 1, 1), nomx |-> {},
       accept |-> { <<"i","n","f","o">>, <<"s","a","l","e","s">> }, catch_all |-> FALSE],
      [met |-> TRUE, free |-> FALSE, hosts |-> SubSeq(MxHostNames, 1, 2), nomx |-> {}, accept |-> {},
       catch_all |-> TRUE] }

\* a mail setup in which every lookup and every session may answer anything
FreeMailEnv ==
    [met |-> TRUE, free |-> TRUE, hosts |-> << >>, nomx |-> {}, accept |-> {}, catch_all |-> FALSE]

\* the mail setup of a run that has not looked anything up yet
UnmetMailEnv ==
    [met |-> FALSE, free |-> FALSE, hosts |-> << >>, nomx |-> {}, accept |-> {},
     catch_all |-> FALSE]

\* the 12 random lower-case letters of smtp_verify
RandomLocals == { <<"q","w","e","r","t","y","u","i","o","p","a","s">>, <<"z","x","c","v","b","n","m","l","k","j","h","g">> }

\* the MX answers a lookup may give: the exchangers, none (also a failed lookup)
MxAnswers(env, domain) ==
    IF env.free
    THEN { << >>, SubSeq(MxHostNames, 1, 1), MxHostNames }
    ELSE { IF domain \in env.nomx THEN << >> ELSE env.hosts }

\* the reply codes a session may end with
SmtpCodes(env, rcpt) ==
    IF env.free THEN { 250, 251, 550, SessionFailed }
    ELSE { IF env.catch_all \/ EmailLocal(rcpt) \in env.accept THEN 250 ELSE 550 }

\* ------------------------------------------------------------------------
\* State
\* ------------------------------------------------------------------------

VARIABLES
    variant,       \* "app": app.py, "cli": company_email_finder.py
    pc,            \* where the request stands
    args,          \* company_name, country, verify of find_company_emails
    cache,         \* the lru_cache of find_company_domain
    domain,        \* the domain find_company_domain returned
    tld,           \* the index of the top-level domain being probed
    page,          \* the index of the page being fetched
    found_emails,  \* the set find_emails collects
    emails,        \* the list find_company_emails holds
    guess,         \* the locals of guess_possible_emails
    sv,            \* the locals of smtp_verify
    verified,      \* the other file's MX filter: the next index, verified_emails
    result,        \* the dict find_company_emails returned
    mailEnv,       \* the mail setup the run meets, once it has met it
    netLog,        \* the network operations issued so far
    mxSeen,        \* the exchangers MX lookups have answered, per domain
    callers        \* the threads calling find_company_domain, and what they were given

vars == << variant, pc, args, cache, domain, tld, page, found_emails, emails, guess, sv,
           verified, result, mailEnv, netLog, mxSeen, callers >>

NoArgs == [company_name |-> << >>, country |-> << >>, verify |-> FALSE]

NoGuess == [base |-> << >>, todo |-> {}, verified |-> << >>, has_mx |-> FALSE,
            probes |-> {}, ret |-> NoValue]

NoSv == [email |-> << >>, mx_hosts |-> << >>, i |-> 0, random_addr |-> << >>,
         rand_ok |-> FALSE, trace |-> << >>, ret |-> << >>]

NoVerified == [i |-> 1, kept |-> << >>]

\* the log of the network operations of the run: the searches, HEAD probes, page
\* fetches and MX lookups issued, those issued more than once, the hosts an SMTP
\* session was opened to, a bit every operation flips, and the index and outcome of
\* the last HEAD probe, kept until the first page is fetched
NoHead == [i |-> 0, outcome |-> 0]

\* failed: the searches, HEAD probes and MX lookups that raised or gave a negative
\* answer; retried: those of them issued again afterwards
NoLog == [issued |-> {}, reissued |-> {}, smtp |-> {}, tick |-> FALSE, head |-> NoHead,
          failed |-> {}, retried |-> {}]

Op(kind, arg) == [op |-> kind, arg |-> arg]

\* the log after one more search, HEAD probe, page fetch or MX lookup
Logged(log, op) ==
    [log EXCEPT !.issued   = log.issued \cup {op},
                !.reissued = IF op \in log.issued THEN log.reissued \cup {op}
                             ELSE log.reissued,
                !.retried  = IF op \in log.failed THEN log.retried \cup {op}
                             ELSE log.retried,
                !.tick     = ~log.tick]

\* the log once the operation has answered: negative is whether it raised or gave
\* a negative answer
Answered(log, op, negative) ==
    IF negative THEN [log EXCEPT !.failed = log.failed \cup {op}] ELSE log

\* the log after one more search, HEAD probe or MX lookup and its answer
LoggedAnswer(log, op, negative) == Answered(Logged(log, op), op, negative)

\* the log after one more SMTP session
LoggedSmtp(log, host) == [log EXCEPT !.smtp = log.smtp \cup {host}, !.tick = ~log.tick]

\* a thread that is not inside find_company_domain
NoCall == [busy |-> FALSE, key |-> 0, guaranteed |-> FALSE, expected |-> NoValue,
           prev |-> NoValue]

\* no call of find_company_domain has returned yet
NoLast == [done |-> FALSE, key |-> 0, hit |-> FALSE, value |-> NoValue, ops |-> 0,
           guaranteed |-> FALSE, expected |-> NoValue, prev |-> NoValue]

\* the threads that share the module's finder
Threads == {1, 2}

\* calls: what each thread is doing; fill: how many other keys have been called;
\* stored: the domain the cache held for the watched key when it last stored or
\* answered it; since: the other keys the cache has stored or answered since then;
\* returned: the domain the last finished call for the watched key returned;
\* last: the call that finished last
NoCallers == [calls |-> [t \in Threads |-> NoCall], fill |-> 0, stored |-> NoValue,
              since |-> {}, returned |-> NoValue, last |-> NoLast]

Pages == IF variant = "app" THEN PagesApp ELSE PagesCli

Key == << args.company_name, args.country >>

\* the mail setups the next lookup may reveal
EnvChoices == IF mailEnv.met THEN { mailEnv } ELSE StableMailEnvs

Init ==
    /\ variant \in {"app", "cli"}
    /\ pc = "idle"
    /\ args = NoArgs
    /\ cache = << >>
    /\ domain = NoValue
    /\ tld = 0
    /\ page = 0
    /\ found_emails = {}
    /\ emails = << >>
    /\ guess = NoGuess
    /\ sv = NoSv
    /\ verified = NoVerified
    /\ result = [pending |-> TRUE]
    /\ mailEnv = UnmetMailEnv
    /\ netLog = NoLog
    /\ mxSeen = {}
    /\ callers = NoCallers
\* ------------------------------------------------------------------------
\* find_company_emails, step by step (one step per network operation)
\* ------------------------------------------------------------------------

\* find_company_emails is called
Call ==
    /\ pc = "idle"
    /\ \E c \in Companies, k \in Countries, v \in BOOLEAN :
           args' = [company_name |-> c, country |-> k, verify |-> v]
    /\ pc' = "lookup"
    /\ UNCHANGED << variant, cache, domain, tld, page, found_emails, emails, guess, sv,
                    verified, result, mailEnv, netLog, mxSeen >>
    /\ UNCHANGED callers

\* the lru_cache wrapper: a hit returns the stored domain, a miss runs the body
CacheLookup ==
    /\ pc = "lookup"
    /\ IF CacheHas(cache, Key)
       THEN /\ domain' = CacheGet(cache, Key)
            /\ cache' = CacheTouch(cache, Key)
            /\ page' = 1
            /\ pc' = "crawl"
       ELSE /\ pc' = "search1"
            /\ UNCHANGED << domain, cache, page >>
    /\ UNCHANGED << variant, args, tld, found_emails, emails, guess, sv, verified, result,
                    mailEnv, netLog, mxSeen >>
    /\ UNCHANGED callers

\* find_company_domain returns d: the wrapper stores it, find_emails starts
ReturnDomain(d) ==
    /\ domain' = d
    /\ cache' = CacheInsert(cache, Key, d)
    /\ page' = 1
    /\ pc' = "crawl"

\* app.py: domain = self._search_duckduckgo(company_name, country)
SearchFirst ==
    /\ pc = "search1"
    /\ variant = "app"
    /\ \E resp \in SearchResponses :
           LET d == SearchApp(args.company_name, resp)
           IN  /\ netLog' = LoggedAnswer(netLog,
                                         Op("search", Query(args.company_name, args.country)),
                                         d = NoValue)
               /\ IF Accepted(args.company_name, d)
                  THEN ReturnDomain(d)
                  ELSE pc' = "search2" /\ UNCHANGED << domain, cache, page >>
    /\ UNCHANGED << variant, args, tld, found_emails, emails, guess, sv, verified, result,
                    mailEnv, mxSeen >>
    /\ UNCHANGED callers

\* app.py: fallback = self._search_duckduckgo(company_name, "")
SearchSecond ==
    /\ pc = "search2"
    /\ \E resp \in SearchResponses :
           LET d == SearchApp(args.company_name, resp)
           IN  /\ netLog' = LoggedAnswer(netLog,
                                         Op("search", Query(args.company_name, << >>)),
                                         d = NoValue)
               /\ IF Accepted(args.company_name, d)
                  THEN ReturnDomain(d) /\ tld' = tld
                  ELSE pc' = "probe" /\ tld' = 1 /\ UNCHANGED << domain, cache, page >>
    /\ UNCHANGED << variant, args, found_emails, emails, guess, sv, verified, result,
                    mailEnv, mxSeen >>
    /\ UNCHANGED callers

\* app.py: one round of the loop over the top-level domains, and the final
\* f"{slug}.com" when the last probe fails
ProbeTld ==
    /\ pc = "probe"
    /\ \E outcome \in HeadOutcomes :
           /\ netLog' = [LoggedAnswer(netLog, Op("head", Candidate(args.company_name, tld)),
                                      ~_domain_exists(outcome))
                            EXCEPT !.head = [i |-> tld, outcome |-> outcome]]
           /\ IF _domain_exists(outcome)
              THEN ReturnDomain(Candidate(args.company_name, tld)) /\ tld' = tld
              ELSE IF tld < Len(FallbackTlds)
              THEN pc' = "probe" /\ tld' = tld + 1 /\ UNCHANGED << domain, cache, page >>
              ELSE ReturnDomain(Slug(args.company_name) \o <<".","c","o","m">>) /\ tld' = tld
    /\ UNCHANGED << variant, args, found_emails, emails, guess, sv, verified, result,
                    mailEnv, mxSeen >>
    /\ UNCHANGED callers

\* company_email_finder.py: the whole of find_company_domain, one search
SearchOnly ==
    /\ pc = "search1"
    /\ variant = "cli"
    /\ \E resp \in SearchResponses :
           LET d == SearchCli(args.company_name, resp)
           IN  /\ netLog' = LoggedAnswer(netLog,
                                         Op("search", Query(args.company_name, args.country)),
                                         d = NoValue)
               /\ IF d # NoValue THEN ReturnDomain(d)
                  ELSE ReturnDomain(Slug(args.company_name) \o <<".","c","o","m">>)
    /\ UNCHANGED << variant, args, tld, found_emails, emails, guess, sv, verified, result,
                    mailEnv, mxSeen >>
    /\ UNCHANGED callers

\* find_emails: one round of the loop over the pages
FetchPage ==
    /\ pc = "crawl"
    /\ page <= Len(Pages)
    /\ netLog' = [Logged(netLog, Op("get", urljoin(BaseUrl(domain), Pages[page])))
                     EXCEPT !.head = NoHead]
    /\ \E out \in PageOutcomes : found_emails' = found_emails \cup PageYield[variant, out]
    /\ page' = page + 1
    /\ UNCHANGED << variant, pc, args, cache, domain, tld, emails, guess, sv, verified,
                    result, mailEnv, mxSeen >>
    /\ UNCHANGED callers

\* find_emails returns; find_company_emails goes on to the guesses (app.py, no
\* address found), to the MX filter (the other file, verify set) or to its result
EndCrawl ==
    /\ pc = "crawl"
    /\ page > Len(Pages)
    /\ \E list \in Orderings(AffinityFilter(found_emails, StripScheme(domain))) :
           /\ emails' = list
           /\ pc' = IF variant = "app"
                    THEN (IF NeedsGuess(list) THEN "guess" ELSE "finish")
                    ELSE (IF args.verify THEN "verify" ELSE "finish")
    /\ UNCHANGED << variant, args, cache, domain, tld, page, found_emails, guess, sv,
                    verified, result, mailEnv, netLog, mxSeen >>
    /\ UNCHANGED callers

\* guess_possible_emails starts: the guesses are built and validated
GuessStart ==
    /\ pc = "guess"
    /\ LET base == StripScheme(domain)
       IN  IF Filtered(base) = {}
           THEN guess' = [NoGuess EXCEPT !.base = base, !.ret = << >>] /\ pc' = "guess_done"
           ELSE guess' = [NoGuess EXCEPT !.base = base, !.todo = Filtered(base)]
                /\ pc' = "guess_mx"
    /\ UNCHANGED << variant, args, cache, domain, tld, page, found_emails, emails, sv,
                    verified, result, mailEnv, netLog, mxSeen >>
    /\ UNCHANGED callers

\* the MX answers remembered per domain
Seen(seen, dom, answer) ==
    seen \cup { [domain |-> dom, host |-> answer[i]] : i \in 1..Len(answer) }

\* guess_possible_emails: if not self.verify_mx_domain(base): return []
GuessMxCheck ==
    /\ pc = "guess_mx"
    /\ \E env \in EnvChoices : \E answer \in MxAnswers(env, guess.base) :
           /\ netLog' = LoggedAnswer(netLog, Op("mx", guess.base), Len(answer) = 0)
           /\ mailEnv' = env
           /\ mxSeen' = Seen(mxSeen, guess.base, answer)
           /\ IF verify_mx_domain(answer)
              THEN guess' = [guess EXCEPT !.has_mx = Len(answer) > 0] /\ pc' = "guess_loop"
              ELSE guess' = [guess EXCEPT !.todo = {}, !.ret = << >>] /\ pc' = "guess_done"
    /\ UNCHANGED << variant, args, cache, domain, tld, page, found_emails, emails, sv,
                    verified, result >>
    /\ UNCHANGED callers

\* guess_possible_emails: the loop takes the next address, in no defined order,
\* and calls smtp_verify (or takes (True, False) when ENABLE_SMTP is off)
GuessNext ==
    /\ pc = "guess_loop"
    /\ guess.todo # {}
    /\ \E email \in guess.todo :
           IF ENABLE_SMTP
           THEN sv' = [NoSv EXCEPT !.email = email] /\ pc' = "sv_mx"
           ELSE sv' = [NoSv EXCEPT !.email = email, !.ret = << TRUE, FALSE >>]
                /\ pc' = "sv_done"
    /\ UNCHANGED << variant, args, cache, domain, tld, page, found_emails, emails, guess,
                    verified, result, mailEnv, netLog, mxSeen >>
    /\ UNCHANGED callers

\* smtp_verify: mx_hosts = self._mx_hosts(domain); if not mx_hosts: return
SvMx ==
    /\ pc = "sv_mx"
    /\ \E env \in EnvChoices : \E answer \in MxAnswers(env, EmailDomain(sv.email)) :
           /\ netLog' = LoggedAnswer(netLog, Op("mx", EmailDomain(sv.email)), Len(answer) = 0)
           /\ mailEnv' = env
           /\ mxSeen' = Seen(mxSeen, EmailDomain(sv.email), answer)
           /\ IF Len(answer) = 0
              THEN sv' = [sv EXCEPT !.ret = << FALSE, FALSE >>] /\ pc' = "sv_done"
              ELSE \E r \in RandomLocals :
                       /\ sv' = [sv EXCEPT !.mx_hosts = answer, !.i = 1,
                                           !.random_addr = r \o <<"@">> \o EmailDomain(sv.email)]
                       /\ pc' = "sv_rand"
    /\ UNCHANGED << variant, args, cache, domain, tld, page, found_emails, emails, guess,
                    verified, result >>
    /\ UNCHANGED callers

\* one SMTP session in the trace of smtp_verify: the host, the recipient, the verdict
Session(host, rcpt, ok) == [host |-> host, rcpt |-> rcpt, ok |-> ok]

\* smtp_verify: rand_ok, _ = self._smtp_rcpt(host, random_addr)
SvRand ==
    /\ pc = "sv_rand"
    /\ netLog' = LoggedSmtp(netLog, ProbedHosts(sv.mx_hosts)[sv.i])
    /\ \E code \in SmtpCodes(mailEnv, sv.random_addr) :
           sv' = [sv EXCEPT !.rand_ok = RcptAccepted(code),
                            !.trace = Append(sv.trace,
                                             Session(ProbedHosts(sv.mx_hosts)[sv.i],
                                                     sv.random_addr, RcptAccepted(code)))]
    /\ pc' = "sv_target"
    /\ UNCHANGED << variant, args, cache, domain, tld, page, found_emails, emails, guess,
                    verified, result, mailEnv, mxSeen >>
    /\ UNCHANGED callers

\* smtp_verify: target_ok, code = self._smtp_rcpt(host, email), then the verdict
SvTarget ==
    /\ pc = "sv_target"
    /\ netLog' = LoggedSmtp(netLog, ProbedHosts(sv.mx_hosts)[sv.i])
    /\ \E code \in SmtpCodes(mailEnv, sv.email) :
           LET target_ok == RcptAccepted(code)
               verdict   == HostVerdict(sv.rand_ok, target_ok)
               traced    == Append(sv.trace, Session(ProbedHosts(sv.mx_hosts)[sv.i],
                                                     sv.email, target_ok))
           IN  IF verdict = "catch_all"
               THEN sv' = [sv EXCEPT !.trace = traced, !.ret = << FALSE, TRUE >>]
                    /\ pc' = "sv_done"
               ELSE IF verdict = "exists"
               THEN sv' = [sv EXCEPT !.trace = traced, !.ret = << TRUE, FALSE >>]
                    /\ pc' = "sv_done"
               ELSE IF sv.i < Len(ProbedHosts(sv.mx_hosts))
               THEN sv' = [sv EXCEPT !.trace = traced, !.i = sv.i + 1, !.rand_ok = FALSE]
                    /\ pc' = "sv_rand"
               ELSE sv' = [sv EXCEPT !.trace = traced, !.ret = << FALSE, FALSE >>]
                    /\ pc' = "sv_done"
    /\ UNCHANGED << variant, args, cache, domain, tld, page, found_emails, emails, guess,
                    verified, result, mailEnv, mxSeen >>
    /\ UNCHANGED callers

\* guess_possible_emails: ok, catch_all = smtp_verify(email); a catch-all breaks
\* the loop and returns [], a confirmed address is appended to verified
GuessTake ==
    /\ pc = "sv_done"
    /\ LET ok        == sv.ret[1]
           catch_all == sv.ret[2]
           probed    == guess.probes \cup
                            { [email |-> sv.email, exists |-> ok, catch_all |-> catch_all] }
       IN  IF catch_all
           THEN guess' = [guess EXCEPT !.probes = probed, !.todo = {}, !.verified = << >>,
                                       !.ret = GuessResult(TRUE, guess.verified)]
                /\ pc' = "guess_done"
           ELSE guess' = [guess EXCEPT !.probes = probed, !.todo = guess.todo \ {sv.email},
                                       !.verified = IF ok THEN Append(guess.verified, sv.email)
                                                    ELSE guess.verified]
                /\ pc' = "guess_loop"
    /\ sv' = NoSv
    /\ UNCHANGED << variant, args, cache, domain, tld, page, found_emails, emails, verified,
                    result, mailEnv, netLog, mxSeen >>
    /\ UNCHANGED callers

\* guess_possible_emails: the loop is over, return verified
GuessEnd ==
    /\ pc = "guess_loop"
    /\ guess.todo = {}
    /\ guess' = [guess EXCEPT !.ret = GuessResult(FALSE, guess.verified), !.verified = << >>]
    /\ pc' = "guess_done"
    /\ UNCHANGED << variant, args, cache, domain, tld, page, found_emails, emails, sv,
                    verified, result, mailEnv, netLog, mxSeen >>
    /\ UNCHANGED callers

\* find_company_emails: if guessed: emails = guessed
GuessReturn ==
    /\ pc = "guess_done"
    /\ emails' = IF guess.ret # << >> THEN guess.ret ELSE emails
    /\ pc' = "finish"
    /\ UNCHANGED << variant, args, cache, domain, tld, page, found_emails, guess, sv,
                    verified, result, mailEnv, netLog, mxSeen >>
    /\ UNCHANGED callers

\* company_email_finder.py: verify_mx_record on the next address of emails
VerifyMx ==
    /\ pc = "verify"
    /\ verified.i <= Len(emails)
    /\ LET e   == emails[verified.i]
           dom == Last(split(e, "@"))
       IN  /\ \E env \in EnvChoices : \E answer \in MxAnswers(env, dom) :
                  /\ netLog' = LoggedAnswer(netLog, Op("mx", dom), Len(answer) = 0)
                  /\ mailEnv' = env
                  /\ mxSeen' = Seen(mxSeen, dom, answer)
                  /\ verified' = [i    |-> verified.i + 1,
                                  kept |-> IF Len(answer) > 0 THEN Append(verified.kept, e)
                                           ELSE verified.kept]
    /\ UNCHANGED << variant, pc, args, cache, domain, tld, page, found_emails, emails, guess,
                    sv, result >>
    /\ UNCHANGED callers

\* the dict find_company_emails returns
ResultOf(v, a, d, list, kept) ==
    IF v = "app"
    THEN [company |-> a.company_name, domain |-> d, emails |-> list, success |-> TRUE]
    ELSE IF a.verify
    THEN [company |-> a.company_name, domain |-> d, emails |-> kept, all_emails |-> list]
    ELSE [company |-> a.company_name, domain |-> d, emails |-> list]

\* find_company_emails returns
Finish ==
    /\ \/ pc = "finish"
       \/ pc = "verify" /\ verified.i > Len(emails)
    /\ result' = ResultOf(variant, args, domain, emails, verified.kept)
    /\ pc' = "done"
    /\ UNCHANGED << variant, args, cache, domain, tld, page, found_emails, emails, guess, sv,
                    verified, mailEnv, netLog, mxSeen >>
    /\ UNCHANGED callers

Next ==
    \/ Call
    \/ CacheLookup
    \/ SearchFirst
    \/ SearchSecond
    \/ ProbeTld
    \/ SearchOnly
    \/ FetchPage
    \/ EndCrawl
    \/ GuessStart
    \/ GuessMxCheck
    \/ GuessNext
    \/ SvMx
    \/ SvRand
    \/ SvTarget
    \/ GuessTake
    \/ GuessEnd
    \/ GuessReturn
    \/ VerifyMx
    \/ Finish

Spec == Init /\ [][Next]_vars

\* ------------------------------------------------------------------------
\* guess_possible_emails on its own, against a mail setup that may answer anything
\* ------------------------------------------------------------------------

\* the domains guess_possible_emails is called with: one with a scheme and 'www.',
\* one whose guesses all fail validation
VerifyDomains == { <<"h","t","t","p","s",":","/","/","w","w","w",".","a","c","m","e","c","o","r","p",".","c","o","m">>, <<"g","m","a","i","l",".","c","o","m">> }

InitVerify ==
    /\ variant = "app"
    /\ pc = "guess"
    /\ args = [NoArgs EXCEPT !.company_name = <<"A","c","m","e"," ","C","o","r","p">>]
    /\ cache = << >>
    /\ domain \in VerifyDomains
    /\ tld = 0
    /\ page = Len(PagesApp) + 1
    /\ found_emails = {}
    /\ emails = << >>
    /\ guess = NoGuess
    /\ sv = NoSv
    /\ verified = NoVerified
    /\ result = [pending |-> TRUE]
    /\ mailEnv = FreeMailEnv
    /\ netLog = NoLog
    /\ mxSeen = {}
    /\ callers = NoCallers

NextVerify ==
    \/ GuessStart
    \/ GuessMxCheck
    \/ GuessNext
    \/ SvMx
    \/ SvRand
    \/ SvTarget
    \/ GuessTake
    \/ GuessEnd
    \/ GuessReturn

SpecVerify == InitVerify /\ [][NextVerify]_vars

\* ------------------------------------------------------------------------
\* Properties of verification and guessing (under SpecVerify)
\* ------------------------------------------------------------------------

\* the sessions of the current smtp_verify come in pairs per host: the random
\* recipient, then the target
HostsDone == Len(sv.trace) \div 2

RandOk(j) == sv.trace[2 * j - 1].ok

TargetOk(j) == sv.trace[2 * j].ok

\* C1: MX gating. A smtp_verify whose MX lookup gave no record returns (False,
\* False) and opens no session; a guess_possible_emails whose MX check found no
\* record returns [] and no session was opened; every session is opened to a host
\* an MX lookup answered for the address's domain, and within one smtp_verify to
\* a host of the non-empty answer that call obtained.
C1_MxGating ==
    /\ (pc = "sv_done" /\ sv.mx_hosts = << >>) =>
           sv.ret = << FALSE, FALSE >> /\ sv.trace = << >>
    /\ (pc = "guess_done" /\ ~guess.has_mx) =>
           guess.ret = << >> /\ netLog.smtp = {}
    /\ \A h \in netLog.smtp : [domain |-> guess.base, host |-> h] \in mxSeen
    /\ \A i \in 1..Len(sv.trace) :
           /\ sv.mx_hosts # << >>
           /\ sv.trace[i].host \in Range(sv.mx_hosts)
           /\ EmailDomain(sv.trace[i].rcpt) = EmailDomain(sv.email)

\* a smtp_verify returned on an empty MX answer, after the MX check of the domain
\* had passed and other addresses had been probed by SMTP
C1_Witness ==
    /\ pc = "sv_done"
    /\ sv.mx_hosts = << >>
    /\ guess.has_mx
    /\ netLog.smtp # {}

\* C2: catch-all detection. When smtp_verify returns after probing, it probed the
\* first one or two MX hosts in order, stopping at the first that accepted the
\* target; it returns (False, True) exactly when that host accepted the random
\* address too, (True, False) exactly when that host accepted the target only, and
\* (False, False) exactly when no probed host accepted the target. In particular
\* hosts that accept every recipient give is_catch_all = True and exists = False.
C2_CatchAll ==
    (pc = "sv_done" /\ sv.mx_hosts # << >>) =>
        LET accepting == { j \in 1..HostsDone : TargetOk(j) }
        IN  /\ Len(sv.trace) = 2 * HostsDone
            /\ HostsDone >= 1
            /\ HostsDone <= 2
            /\ \A j \in 1..HostsDone :
                   /\ sv.trace[2 * j - 1].host = sv.mx_hosts[j]
                   /\ sv.trace[2 * j].host = sv.mx_hosts[j]
                   /\ sv.trace[2 * j - 1].rcpt = sv.random_addr
                   /\ sv.trace[2 * j].rcpt = sv.email
            /\ accepting \subseteq {HostsDone}
            /\ (accepting = {}) => HostsDone = Min(2, Len(sv.mx_hosts))
            /\ (sv.ret = << FALSE, TRUE >>) <=> (accepting # {} /\ RandOk(HostsDone))
            /\ (sv.ret = << TRUE, FALSE >>) <=> (accepting # {} /\ ~RandOk(HostsDone))
            /\ (sv.ret = << FALSE, FALSE >>) <=> (accepting = {})
            /\ (\A i \in 1..Len(sv.trace) : sv.trace[i].ok) => sv.ret = << FALSE, TRUE >>

\* a catch-all found on the second host, the first having refused the target
C2_Witness ==
    /\ pc = "sv_done"
    /\ sv.ret = << FALSE, TRUE >>
    /\ Len(sv.trace) = 4
    /\ Len(sv.mx_hosts) = 3

\* when guess_possible_emails returns: [] after a catch-all, else exactly the
\* guesses whose probe reported exists, each once
C3_Returned ==
    (pc = "guess_done") =>
        IF \E p \in guess.probes : p.catch_all
        THEN guess.ret = << >>
        ELSE /\ Range(guess.ret) = { p.email : p \in { q \in guess.probes : q.exists } }
             /\ Len(guess.ret) = Cardinality(Range(guess.ret))

\* once a probe has reported a catch-all, no step issues a network operation
C3_NoProbeAfter ==
    (\E p \in guess.probes : p.catch_all) => netLog' = netLog

\* C3: catch-all suppression. When guess_possible_emails returns, whatever the
\* order of the probes: if a probe reported a catch-all the list is empty, else it
\* holds exactly the guesses whose probe reported exists, each once; and once a
\* probe has reported a catch-all no further network operation is issued.
C3_Suppression == [](C3_Returned) /\ [][C3_NoProbeAfter]_vars

\* a catch-all reported after two other guesses had been confirmed one by one
C3_Witness ==
    /\ pc = "guess_done"
    /\ \E p \in guess.probes : p.catch_all
    /\ Cardinality({ p \in guess.probes : p.exists }) = 2
    /\ guess.ret = << >>

\* ------------------------------------------------------------------------
\* Properties of the whole run (under Spec)
\* ------------------------------------------------------------------------

\* the operations of one kind in a log
KindOps(log, kind) ==
    [issued |-> { o \in log.issued : o.op = kind },
     reissued |-> { o \in log.reissued : o.op = kind }]

\* the HEAD probes issued so far, by candidate
HeadProbed == { o.arg : o \in KindOps(netLog, "head").issued }

\* the candidates the slug fallback is to probe, in order
SlugCandidates(company_name) ==
    LET slug == Slug(company_name)
    IN  << slug \o <<".","c","o","m">>, slug \o <<".","i","t">>, slug \o <<".","c","o",".","u","k">>,
           slug \o <<".","f","r">>, slug \o <<".","e","s">>, slug \o <<".","c","h">> >>

\* a probe answered with a status below 500
HeadAnswered(outcome) == outcome # RequestFailed /\ outcome < 500

\* C5: resolver slug fallback. When neither search gave an accepted domain,
\* find_company_domain probes slug.com, .it, .co.uk, .fr, .es, .ch in that order;
\* it goes to the next candidate only after a probe that raised or answered 500
\* or more, returns the first candidate answered below 500 with no later candidate
\* probed, returns slug.com when all six probes failed; and whenever the call has
\* returned, the domain is a non-empty string.
C5_SlugFallback ==
    LET cands == SlugCandidates(args.company_name)
    IN  /\ (pc = "probe") =>
               /\ variant = "app"
               /\ Op("search", Query(args.company_name, args.country)) \in netLog.issued
               /\ Op("search", Query(args.company_name, << >>)) \in netLog.issued
               /\ tld \in 1..6
               /\ HeadProbed = { cands[i] : i \in 1..(tld - 1) }
               /\ netLog.head.i = tld - 1
               /\ (tld > 1) => ~HeadAnswered(netLog.head.outcome)
        /\ (pc = "crawl" /\ netLog.head.i > 0) =>
               /\ HeadProbed = { cands[i] : i \in 1..netLog.head.i }
               /\ IF HeadAnswered(netLog.head.outcome)
                  THEN domain = cands[netLog.head.i]
                  ELSE netLog.head.i = 6 /\ domain = cands[1]
        /\ (pc \notin {"idle", "lookup", "search1", "search2", "probe"}) =>
               domain # NoValue /\ Len(domain) > 0

\* the third candidate answered 404 after two failed probes, and was returned
C5_Witness ==
    /\ pc = "crawl"
    /\ netLog.head = [i |-> 3, outcome |-> 404]
    /\ domain = <<"a","c","m","e","c","o","r","p",".","c","o",".","u","k">>
    /\ Cardinality(HeadProbed) = 3

\* C6: verification flag. With verify set and at least one extracted address, the
\* result carries all_emails equal to the extracted list and emails equal to the
\* addresses of all_emails whose domain has an MX record, and no SMTP session was
\* opened; without verify it carries no all_emails and emails is the extracted list.
C6_VerifyFlag ==
    (pc = "done" /\ found_emails # {}) =>
        IF args.verify
        THEN /\ "all_emails" \in DOMAIN result
             /\ result.all_emails = emails
             /\ result.emails =
                    SelectSeq(emails,
                              LAMBDA e : \A answer \in MxAnswers(mailEnv, Last(split(e, "@"))) :
                                             Len(answer) > 0)
             /\ netLog.smtp = {}
        ELSE /\ "all_emails" \notin DOMAIN result
             /\ result.emails = emails

\* C7: domain-affinity filter. The list find_emails of app.py returns holds
\* exactly the validated addresses whose part after '@' contains the target domain
\* when there is such an address, and all validated addresses otherwise.
C7_DomainAffinity ==
    (variant = "app" /\ pc \in {"finish", "done"} /\ found_emails # {}) =>
        LET target_domain == StripScheme(domain)
            own == { e \in found_emails : HasAffinityDomainPart(target_domain, e) }
        IN  /\ Range(emails) = IF own # {} THEN own ELSE found_emails
            /\ Len(emails) = Cardinality(Range(emails))

\* an address of the form local@domain, both parts non-empty
IsLocalAtDomain(e) ==
    /\ Len(split(e, "@")) = 2
    /\ Len(split(e, "@")[1]) > 0
    /\ Len(split(e, "@")[2]) > 0

\* C8: result-set invariant. Every element of the returned emails is lower-case,
\* of the form local@domain, passes _is_valid_email, and occurs once.
C8_ResultSet ==
    (pc = "done") =>
        /\ \A i \in 1..Len(result.emails) :
               /\ result.emails[i] = lower(result.emails[i])
               /\ IsLocalAtDomain(result.emails[i])
               /\ _is_valid_email(variant, result.emails[i])
        /\ Len(result.emails) = Cardinality(Range(result.emails))

\* C9: orchestrator error containment. Every run of find_company_emails ends in a
\* result with the keys company, domain, emails and success.
C9_ResultKeys ==
    (pc = "done") => {"company", "domain", "emails", "success"} \subseteq DOMAIN result

\* the stage a position of the run belongs to: resolution, crawl, guessing or MX
\* filter, result
Stage(p) ==
    IF p \in {"idle", "lookup", "search1", "search2", "probe"} THEN 1
    ELSE IF p = "crawl" THEN 2
    ELSE IF p \in {"finish", "done"} THEN 4
    ELSE 3

\* where the run stands agrees with what has been issued so far
C10_Order ==
    /\ (Stage(pc) = 1) =>
           /\ KindOps(netLog, "get").issued = {}
           /\ KindOps(netLog, "mx").issued = {}
           /\ netLog.smtp = {}
           /\ guess = NoGuess
    /\ (Stage(pc) = 2) =>
           /\ domain # NoValue
           /\ KindOps(netLog, "mx").issued = {}
           /\ netLog.smtp = {}
           /\ guess = NoGuess
    /\ (guess # NoGuess \/ netLog.smtp # {} \/ sv # NoSv) =>
           /\ variant = "app"
           /\ found_emails = {}
           /\ page > Len(Pages)
           /\ Cardinality(KindOps(netLog, "get").issued) = Len(Pages)
    /\ (Stage(pc) >= 3 /\ found_emails # {}) =>
           /\ guess = NoGuess
           /\ sv = NoSv
           /\ netLog.smtp = {}

\* a step never goes back a stage, and issues only the operations of its stage
C10_Forward ==
    /\ Stage(pc') >= Stage(pc)
    /\ (Stage(pc) # 1) =>
           /\ KindOps(netLog', "search") = KindOps(netLog, "search")
           /\ KindOps(netLog', "head") = KindOps(netLog, "head")
    /\ (Stage(pc) # 2) => KindOps(netLog', "get") = KindOps(netLog, "get")
    /\ (Stage(pc) # 3) =>
           /\ KindOps(netLog', "mx") = KindOps(netLog, "mx")
           /\ netLog'.smtp = netLog.smtp
    /\ (Stage(pc) = 4) => netLog' = netLog

\* C10: Guesser gating and stage order. Within a run the domain is resolved before
\* any page is fetched, every page is fetched before the Guesser starts, the
\* Guesser and SMTP run only when extraction returned no address, and when
\* extraction returned an address no guess is built and no SMTP session is opened.
C10_StageOrder == [](C10_Order) /\ [][C10_Forward]_vars

\* a run of app.py ended after SMTP sessions, extraction having found nothing
C10_Witness ==
    /\ pc = "done"
    /\ variant = "app"
    /\ found_emails = {}
    /\ netLog.smtp # {}
    /\ result.emails # << >>

\* C11: no retry. Within one run no search, HEAD probe or MX lookup that raised
\* or gave a negative answer is issued again with the same arguments (query text,
\* candidate, domain), no page URL is fetched twice, and within one smtp_verify
\* no refused or failed RCPT is sent again to the same host for the same recipient.
C11_NoRetry ==
    /\ netLog.retried = {}
    /\ KindOps(netLog, "get").reissued = {}
    /\ \A i, j \in 1..Len(sv.trace) :
           (i < j /\ sv.trace[i].host = sv.trace[j].host
                  /\ sv.trace[i].rcpt = sv.trace[j].rcpt) => sv.trace[i].ok

\* ------------------------------------------------------------------------
\* find_company_domain under many keys and two threads
\* ------------------------------------------------------------------------

\* other keys called after the first maxsize - 2 of them
MaxFresh == 3

\* the other keys called one at a time before the threads are let loose
WarmFill == maxsize - 2

\* the key whose results are watched
WatchedKey == << <<"A","c","m","e"," ","C","o","r","p">>, <<"I","t","a","l","y">> >>

FillerName(n) ==
    << "k", DigitChars[(n \div 100) + 1], DigitChars[((n \div 10) % 10) + 1],
       DigitChars[(n % 10) + 1] >>

\* keys by number: 0 is the watched key, n > 0 the n-th other key
KeyOf(k) == IF k = 0 THEN WatchedKey ELSE << FillerName(k), << >> >>

\* what the network answers during one run of the body: the two result pages and
\* the outcomes of the six HEAD probes
Unreachable ==
    [r1 |-> [error |-> TRUE, links |-> << >>], r2 |-> [error |-> TRUE, links |-> << >>],
     heads |-> [i \in 1..6 |-> RequestFailed]]

\* the network is down for the other keys; for the watched key the search finds
\* the site, or is down while the second HEAD probe answers
NetAnswers(k) ==
    IF k = 0
    THEN { [Unreachable EXCEPT
               !.r1 = [error |-> FALSE, links |-> << <<"h","t","t","p","s",":","/","/","w","w","w",".","a","c","m","e","c","o","r","p",".","c","o","m","/">> >>]],
           [Unreachable EXCEPT !.heads = [i \in 1..6 |-> IF i = 2 THEN 200 ELSE RequestFailed]] }
    ELSE { Unreachable }

\* the body of find_company_domain (app.py) against one set of answers: the
\* domain it returns and the number of network calls it makes
ResolveApp(company_name, country, net) ==
    LET d1    == SearchApp(company_name, net.r1)
        d2    == SearchApp(company_name, net.r2)
        ok    == { i \in 1..Len(FallbackTlds) : _domain_exists(net.heads[i]) }
        first == CHOOSE i \in ok : \A j \in ok : i <= j
    IN  IF Accepted(company_name, d1) THEN [domain |-> d1, ops |-> 1]
        ELSE IF Accepted(company_name, d2) THEN [domain |-> d2, ops |-> 2]
        ELSE IF ok # {} THEN [domain |-> Candidate(company_name, first), ops |-> 2 + first]
        ELSE [domain |-> Slug(company_name) \o <<".","c","o","m">>, ops |-> 2 + Len(FallbackTlds)]

\* what the body may return for key k, the watched key's results computed once
WatchedResults ==
    { ResolveApp(WatchedKey[1], WatchedKey[2], net) : net \in NetAnswers(0) }

Results(k) ==
    IF k = 0 THEN WatchedResults
    ELSE { ResolveApp(KeyOf(k)[1], KeyOf(k)[2], net) : net \in NetAnswers(k) }

\* the variables of the single request, which stay as they are here
PipelineVars == << variant, pc, args, domain, tld, page, found_emails, emails, guess, sv,
                   verified, result, mailEnv, netLog, mxSeen >>

AllIdle == \A t \in Threads : ~callers.calls[t].busy

\* the calls the callers make: first the watched key, by either thread; then
\* WarmFill other keys one at a time; then the watched key, a new other key (at
\* most MaxFresh of them) or the last other key again, by either thread
Allowed(t, k) ==
    \/ k = 0 /\ (callers.fill = 0 \/ callers.fill >= WarmFill)
    \/ /\ k = callers.fill + 1
       /\ callers.fill < WarmFill
       /\ t = 1
       /\ AllIdle
       /\ CacheHas(cache, WatchedKey)
    \/ /\ k = callers.fill + 1
       /\ callers.fill >= WarmFill
       /\ callers.fill < WarmFill + MaxFresh
    \/ k = callers.fill /\ callers.fill >= WarmFill

\* the cache stored or answered key k with value
Touched(c, k, value) ==
    IF k = 0 THEN [c EXCEPT !.stored = value, !.since = {}]
    ELSE [c EXCEPT !.since = IF c.stored = NoValue THEN {} ELSE @ \cup {k}]

\* the watched key is in the cache for sure: it was stored or answered, and fewer
\* than maxsize other keys have been since
Guaranteed == callers.stored # NoValue /\ Cardinality(callers.since) < maxsize

\* a thread calls find_company_domain and the wrapper finds the key: the entry
\* becomes the most recently used and its domain is returned
CallHit(t, k) ==
    /\ ~callers.calls[t].busy
    /\ Allowed(t, k)
    /\ CacheHas(cache, KeyOf(k))
    /\ cache' = CacheTouch(cache, KeyOf(k))
    /\ LET value == CacheGet(cache, KeyOf(k))
           c     == Touched(callers, k, value)
       IN  callers' = [c EXCEPT !.returned = IF k = 0 THEN value ELSE @,
                                !.last = [done |-> TRUE, key |-> k, hit |-> TRUE,
                                          value |-> value, ops |-> 0,
                                          guaranteed |-> Guaranteed,
                                          expected |-> callers.stored,
                                          prev |-> callers.returned]]
    /\ UNCHANGED PipelineVars

\* a thread calls find_company_domain and the wrapper misses: the body starts
CallMiss(t, k) ==
    /\ ~callers.calls[t].busy
    /\ Allowed(t, k)
    /\ ~CacheHas(cache, KeyOf(k))
    /\ callers' = [callers EXCEPT !.calls[t] = [busy |-> TRUE, key |-> k,
                                               guaranteed |-> Guaranteed,
                                               expected |-> callers.stored,
                                               prev |-> callers.returned],
                                  !.fill = IF k > @ THEN k ELSE @]
    /\ UNCHANGED cache
    /\ UNCHANGED PipelineVars

\* the body returns: the wrapper stores the domain unless another thread stored
\* the key meanwhile, and returns the domain the body computed
ReturnMiss(t) ==
    /\ callers.calls[t].busy
    /\ LET call == callers.calls[t]
           k    == call.key
       IN  \E r \in Results(k) :
               LET c == IF CacheHas(cache, KeyOf(k)) THEN callers
                        ELSE Touched(callers, k, r.domain)
               IN  /\ cache' = CacheInsert(cache, KeyOf(k), r.domain)
                   /\ callers' = [c EXCEPT !.calls[t] = NoCall,
                                           !.returned = IF k = 0 THEN r.domain ELSE @,
                                           !.last = [done |-> TRUE, key |-> k, hit |-> FALSE,
                                                     value |-> r.domain, ops |-> r.ops,
                                                     guaranteed |-> call.guaranteed,
                                                     expected |-> call.expected,
                                                     prev |-> call.prev]]
    /\ UNCHANGED PipelineVars

NextCache ==
    \/ \E t \in Threads, k \in 0..(WarmFill + MaxFresh) : CallHit(t, k)
    \/ \E t \in Threads, k \in 0..(WarmFill + MaxFresh) : CallMiss(t, k)
    \/ \E t \in Threads : ReturnMiss(t)

InitCache ==
    /\ variant = "app"
    /\ pc = "idle"
    /\ args = NoArgs
    /\ cache = << >>
    /\ domain = NoValue
    /\ tld = 0
    /\ page = 0
    /\ found_emails = {}
    /\ emails = << >>
    /\ guess = NoGuess
    /\ sv = NoSv
    /\ verified = NoVerified
    /\ result = [pending |-> TRUE]
    /\ mailEnv = UnmetMailEnv
    /\ netLog = NoLog
    /\ mxSeen = {}
    /\ callers = NoCallers

SpecCache == InitCache /\ [][NextCache]_vars

\* C4: memoized domain resolution, as far as the cache holds. Once the cache has
\* stored or answered the domain of a key, a later call with that key, started
\* while fewer than maxsize other keys have been stored or answered since,
\* returns that domain from the cache and makes no network call, whatever the
\* other thread does.
C4_Memoized ==
    (callers.last.done /\ callers.last.key = 0 /\ callers.last.guaranteed) =>
        /\ callers.last.hit
        /\ callers.last.value = callers.last.expected
        /\ callers.last.ops = 0

\* the watched key was answered from the cache after maxsize other keys in all
\* had been called, a hit in between having made it the most recent entry
C4_Witness ==
    /\ callers.last.done
    /\ callers.last.key = 0
    /\ callers.last.guaranteed
    /\ callers.last.hit
    /\ callers.fill >= maxsize
    /\ Len(cache) = maxsize

\* C4 as stated: once a call for a key has returned a domain, every later call
\* with that key returns the same domain and makes no network call, after any
\* number of other keys and with concurrent callers.
C4_Always ==
    (callers.last.done /\ callers.last.key = 0 /\ callers.last.prev # NoValue) =>
        /\ callers.last.value = callers.last.prev
        /\ callers.last.ops = 0

====
